---- MODULE Spec2Model ----
(***************************************************************************)
(* The document model of ScriptCreator (src/src/script.py): the Section    *)
(* variants, Scene, Script, and the formatter Script applies on insertion. *)
(*                                                                         *)
(* Python values are modelled as follows.                                  *)
(*   str      a sequence of ASCII codes, <<98, 111, 98>> for 'bob'         *)
(*   None     the one-element sequence <<-1>> (no str holds the code -1)   *)
(*   object   an entry of heap, addressed by a reference (a positive       *)
(*            integer); attributes holding objects hold references, so     *)
(*            that two names for one object are visible as such            *)
(*   raise    a status other than "ok" in the result of the operation      *)
(***************************************************************************)
EXTENDS Integers, Sequences, FiniteSets, TLC

\* Bounds of the model.
MaxScenes == 2
MaxSections == 2
MaxLen == 3

-----------------------------------------------------------------------------
(* Python built-ins used by script.py *)

None == <<-1>>

\* string.punctuation: !"#$%&'()*+,-./:;<=>?@[\]^_`{|}~
string_punctuation == (33..47) \cup (58..64) \cup (91..96) \cup (123..126)

\* str.upper() on one ASCII character
chr_upper(c) == IF c \in 97..122 THEN c - 32 ELSE c

\* str.lower() on one ASCII character (re.I compares case-insensitively)
chr_lower(c) == IF c \in 65..90 THEN c + 32 ELSE c

\* str.upper()
str_upper(s) == [i \in 1..Len(s) |-> chr_upper(s[i])]

\* \w of the re module on ASCII text: [A-Za-z0-9_]
is_word_chr(c) == c \in (48..57) \cup (65..90) \cup {95} \cup (97..122)

\* s[a:b] for 0 <= a, 0 <= b (Python clamps both ends to len(s))
str_slice(s, a, b) == SubSeq(s, a + 1, IF b < Len(s) THEN b ELSE Len(s))

\* s[a:]
str_from(s, a) == SubSeq(s, a + 1, Len(s))

\* sep.join(parts)
RECURSIVE str_join(_, _)
str_join(sep, parts) ==
    IF parts = <<>> THEN <<>>
    ELSE IF Len(parts) = 1 THEN parts[1]
    ELSE parts[1] \o sep \o str_join(sep, Tail(parts))

\* list[i] and del list[i]: whether the index i is accepted by a list of
\* length n (Python accepts -n .. n-1 and raises IndexError otherwise)
list_index_ok(n, i) == -n <= i /\ i < n

\* the 1-based position list[i] denotes, for an accepted index
list_pos(n, i) == IF i >= 0 THEN i + 1 ELSE n + i + 1

\* del list[i] for an accepted index
list_del(l, i) ==
    LET p == list_pos(Len(l), i)
    IN  SubSeq(l, 1, p - 1) \o SubSeq(l, p + 1, Len(l))

\* the orders in which a for loop may iterate over a set
set_orders(S) ==
    {f \in [1..Cardinality(S) -> S] : \A i, j \in 1..Cardinality(S) : f[i] = f[j] => i = j}

-----------------------------------------------------------------------------
(* re.finditer(rf"\b{noun}'?s?\b", drctn, re.I), for a noun made of literal *)
(* characters (no regular-expression metacharacter), positions 0-based      *)

\* \b at position p of s: exactly one of s[p-1], s[p] is a word character
re_boundary(s, p) ==
    LET before == p >= 1 /\ p <= Len(s) /\ is_word_chr(s[p])
        after == p < Len(s) /\ is_word_chr(s[p + 1])
    IN  before # after

\* the end of the match of the pattern starting at p, or -1 if there is none.
\* '? and s? are greedy, so the alternatives are tried in the order
\* ('s), ('), (s), () and the first one that ends at a \b wins.
re_match_at(s, noun, p) ==
    LET n == Len(noun)
        e == p + n
        lit == /\ e <= Len(s)
               /\ \A k \in 1..n : chr_lower(s[p + k]) = chr_lower(noun[k])
        apos == e < Len(s) /\ s[e + 1] = 39
        apos_s == apos /\ e + 1 < Len(s) /\ chr_lower(s[e + 2]) = 115
        bare_s == e < Len(s) /\ chr_lower(s[e + 1]) = 115
    IN  IF ~(re_boundary(s, p) /\ lit) THEN -1
        ELSE IF apos_s /\ re_boundary(s, e + 2) THEN e + 2
        ELSE IF apos /\ re_boundary(s, e + 1) THEN e + 1
        ELSE IF bare_s /\ re_boundary(s, e + 1) THEN e + 1
        ELSE IF re_boundary(s, e) THEN e
        ELSE -1

\* the matches, left to right and non-overlapping, as <<start, end>> pairs
RECURSIVE re_finditer(_, _, _)
re_finditer(s, noun, pos) ==
    IF pos > Len(s) THEN <<>>
    ELSE LET e == re_match_at(s, noun, pos)
         IN  IF e < 0 THEN re_finditer(s, noun, pos + 1)
             ELSE <<<<pos, e>>>> \o re_finditer(s, noun, IF e > pos THEN e ELSE pos + 1)

\* str.split(sep) for a non-empty sep: cut at each occurrence, left to right
RECURSIVE str_split(_, _)
str_split(s, sep) ==
    LET n == Len(sep)
        hits == {i \in 0..(Len(s) - n) : SubSeq(s, i + 1, i + n) = sep}
    IN  IF hits = {} THEN <<s>>
        ELSE LET i == CHOOSE x \in hits : \A y \in hits : x <= y
             IN  <<SubSeq(s, 1, i)>> \o str_split(str_from(s, i + n), sep)

-----------------------------------------------------------------------------
(* The classes of script.py; an object is a record whose cls names its class *)

RawSection(markdown) == [cls |-> "RawSection", markdown |-> markdown]

CharacterLine(character, line, stage_direction) ==
    [cls |-> "CharacterLine", character |-> character, line |-> line,
     stage_drctn |-> stage_direction]

StageDirection(direction) == [cls |-> "StageDirection", direction |-> direction]

\* Scene.__init__: _sections is a new list of the references passed
Scene(scene_num, sections) ==
    [cls |-> "Scene", _scene_num |-> scene_num, _sections |-> sections]

\* the attributes Script.__init__ sets, together with the properties and
\* methods of the class: the names self.<name> finds on a Script
Script_attributes ==
    {"_characters", "_locations", "title", "subtitle", "_scenes",
     "num_scenes", "characters", "locations", "set_title", "set_subtitle",
     "add_character", "add_location", "add_scene", "add_section", "get_scene",
     "get_scene_length", "delete_section", "export_to_markdown", "copy",
     "_scene_num_to_idx", "_modify_stage_drctn", "_modify_line"}

-----------------------------------------------------------------------------
(* The heap: a function from the references in use to objects *)

\* the reference a constructor call returns: one not in use
new_ref(h) == CHOOSE r \in 1..(Cardinality(DOMAIN h) + 1) :
                  /\ r \notin DOMAIN h
                  /\ \A q \in 1..(r - 1) : q \in DOMAIN h

heap_put(h, r, obj) == [x \in DOMAIN h \cup {r} |-> IF x = r THEN obj ELSE h[x]]

\* the objects a list of references leads to, each followed by the objects
\* it holds, in order
RECURSIVE visit(_, _)
visit(h, refs) ==
    IF refs = <<>> THEN <<>>
    ELSE LET r == Head(refs)
         IN  (IF r = 0 THEN <<>>
              ELSE <<r>> \o (IF h[r].cls = "Scene" THEN visit(h, h[r]._sections) ELSE <<>>))
             \o visit(h, Tail(refs))

\* a sequence without its repetitions
RECURSIVE first_visits(_, _)
first_visits(seq, seen) ==
    IF seq = <<>> THEN <<>>
    ELSE IF Head(seq) \in seen THEN first_visits(Tail(seq), seen)
    ELSE <<Head(seq)>> \o first_visits(Tail(seq), seen \cup {Head(seq)})

\* the place of r in order
place(order, r) == IF r = 0 THEN 0 ELSE CHOOSE k \in DOMAIN order : order[k] = r

\* References are names and nothing else: the program never compares or
\* prints them. The heap is kept in one form, the objects numbered in the
\* order in which the names in names reach them; an object no name reaches
\* is freed (reference counting).
heap_order(h, names) == first_visits(visit(h, names), {})

heap_renamed(h, order) ==
    [k \in DOMAIN order |->
        IF h[order[k]].cls = "Scene"
        THEN [h[order[k]] EXCEPT !._sections = [i \in DOMAIN @ |-> place(order, @[i])]]
        ELSE h[order[k]]]

-----------------------------------------------------------------------------
(* Section.copy and Section.export_to_markdown, per class *)

RawSection_copy(h, r) ==
    LET n == new_ref(h) IN [heap |-> heap_put(h, n, RawSection(h[r].markdown)), ref |-> n]

CharacterLine_copy(h, r) ==
    LET n == new_ref(h)
    IN  [heap |-> heap_put(h, n, CharacterLine(h[r].character, h[r].line, h[r].stage_drctn)),
         ref |-> n]

StageDirection_copy(h, r) ==
    LET n == new_ref(h) IN [heap |-> heap_put(h, n, StageDirection(h[r].direction)), ref |-> n]

RECURSIVE Section_copy(_, _)
RECURSIVE copy_each(_, _)

\* [s.copy() for s in self._sections]: the copies, in order, and the heap
\* holding them
copy_each(h, refs) ==
    IF refs = <<>> THEN [heap |-> h, refs |-> <<>>]
    ELSE LET first == Section_copy(h, Head(refs))
             rest == copy_each(first.heap, Tail(refs))
         IN  [heap |-> rest.heap, refs |-> <<first.ref>> \o rest.refs]

\* Scene.copy passing the sections themselves to the new Scene
Scene_copy_shallow(h, r) ==
    LET n == new_ref(h)
    IN  [heap |-> heap_put(h, n, Scene(h[r]._scene_num, h[r]._sections)), ref |-> n]

\* Scene.copy: a new Scene holding a copy of every section
Scene_copy(h, r) ==
    LET copies == copy_each(h, h[r]._sections)
        n == new_ref(copies.heap)
    IN  [heap |-> heap_put(copies.heap, n, Scene(h[r]._scene_num, copies.refs)), ref |-> n]

\* s.copy(), dispatched on the class of s
Section_copy(h, r) ==
    CASE h[r].cls = "RawSection" -> RawSection_copy(h, r)
      [] h[r].cls = "CharacterLine" -> CharacterLine_copy(h, r)
      [] h[r].cls = "StageDirection" -> StageDirection_copy(h, r)
      [] h[r].cls = "Scene" -> Scene_copy(h, r)

RawSection_export_to_markdown(obj) == obj.markdown

\* CharacterLine.export_to_markdown writing the name as it is stored
CharacterLine_export_name_as_stored(obj) ==
    LET drctn_str == IF obj.stage_drctn # None
                     THEN <<32, 42, 40>> \o obj.stage_drctn \o <<41, 42>>
                     ELSE <<>>
    IN  <<42, 42>> \o obj.character \o <<42, 42, 58>> \o drctn_str
        \o <<10, 10>> \o obj.line

\* f'**{self.character.upper()}**:{drctn_str}\n\n{self.line}'
CharacterLine_export_to_markdown(obj) ==
    LET drctn_str == IF obj.stage_drctn # None
                     THEN <<32, 42, 40>> \o obj.stage_drctn \o <<41, 42>>
                     ELSE <<>>
    IN  <<42, 42>> \o str_upper(obj.character) \o <<42, 42, 58>> \o drctn_str
        \o <<10, 10>> \o obj.line

\* '*(' + ')*\n\n*('.join(self.direction.split('\n\n')) + ')*'
StageDirection_export_to_markdown(obj) ==
    <<42, 40>> \o str_join(<<41, 42, 10, 10, 42, 40>>, str_split(obj.direction, <<10, 10>>))
    \o <<41, 42>>

\* str(int) for 0 <= n
RECURSIVE int_str(_)
int_str(n) == IF n < 10 THEN <<48 + n>> ELSE int_str(n \div 10) \o <<48 + (n % 10)>>

RECURSIVE Section_export_to_markdown(_, _)

\* f'## Scene {self._scene_num}\n' + '\n\n<br/>\n\n'.join(...)
Scene_export_to_markdown(h, obj) ==
    <<35, 35, 32, 83, 99, 101, 110, 101, 32>> \o int_str(obj._scene_num) \o <<10>>
    \o str_join(<<10, 10, 60, 98, 114, 47, 62, 10, 10>>,
                [i \in DOMAIN obj._sections |-> Section_export_to_markdown(h, obj._sections[i])])

Section_export_to_markdown(h, r) ==
    CASE h[r].cls = "RawSection" -> RawSection_export_to_markdown(h[r])
      [] h[r].cls = "CharacterLine" -> CharacterLine_export_to_markdown(h[r])
      [] h[r].cls = "StageDirection" -> StageDirection_export_to_markdown(h[r])
      [] h[r].cls = "Scene" -> Scene_export_to_markdown(h, h[r])

-----------------------------------------------------------------------------
(* Scene's methods, on the Scene object obj *)

Scene_num_sections(obj) == Len(obj._sections)

\* self._sections.append(section)
Scene_add_section(obj, section) == [obj EXCEPT !._sections = Append(@, section)]

\* self._sections[section_num]
Scene_get_section(obj, section_num) ==
    IF list_index_ok(Len(obj._sections), section_num)
    THEN [status |-> "ok", value |-> obj._sections[list_pos(Len(obj._sections), section_num)]]
    ELSE [status |-> "IndexError", value |-> 0]

\* del self._sections[section_num]
Scene_delete_section(obj, section_num) ==
    IF list_index_ok(Len(obj._sections), section_num)
    THEN [status |-> "ok", value |-> [obj EXCEPT !._sections = list_del(@, section_num)]]
    ELSE [status |-> "IndexError", value |-> obj]

-----------------------------------------------------------------------------
(* Script's private methods *)

\* _scene_num_to_idx taking the 1-based number a negative scene_num stands
\* for as the list index
_scene_num_to_idx_one_based(scene_num, num_scenes) ==
    IF scene_num > num_scenes THEN [status |-> "IndexError", value |-> 0]
    ELSE IF scene_num = 0 THEN [status |-> "IndexError", value |-> 0]
    ELSE IF scene_num < 0 THEN [status |-> "ok", value |-> scene_num + num_scenes + 1]
    ELSE [status |-> "ok", value |-> scene_num - 1]

\* Script._scene_num_to_idx, for a Script of num_scenes scenes
_scene_num_to_idx(scene_num, num_scenes) ==
    IF scene_num > num_scenes THEN [status |-> "IndexError", value |-> 0]
    ELSE IF scene_num = 0 THEN [status |-> "IndexError", value |-> 0]
    ELSE IF scene_num < 0 THEN [status |-> "ok", value |-> scene_num + num_scenes]
    ELSE [status |-> "ok", value |-> scene_num - 1]

\* res = res[:match.start()] + match.group().upper() + res[match.end():],
\* for each match in turn; the matches are those found in drctn
RECURSIVE capitalize_matches(_, _, _)
capitalize_matches(res, drctn, matches) ==
    IF matches = <<>> THEN res
    ELSE LET start == Head(matches)[1]
             end == Head(matches)[2]
         IN  capitalize_matches(
                 str_slice(res, 0, start) \o str_upper(str_slice(drctn, start, end))
                     \o str_from(res, end),
                 drctn, Tail(matches))

\* the matches of every noun, the nouns in the order the loop visits them
RECURSIVE matches_of(_, _)
matches_of(drctn, nouns) ==
    IF nouns = <<>> THEN <<>>
    ELSE re_finditer(drctn, Head(nouns), 0) \o matches_of(drctn, Tail(nouns))

\* Script._modify_stage_drctn; to_capitalize is the union of the rosters in
\* the order the for loop iterates over it
_modify_stage_drctn(drctn, punct, to_capitalize) ==
    IF drctn = None THEN [status |-> "ok", value |-> None]
    ELSE IF Len(drctn) = 0 THEN [status |-> "IndexError", value |-> drctn]
    ELSE LET last_is_punct == drctn[Len(drctn)] \in string_punctuation
             res == IF punct
                    THEN drctn \o (IF last_is_punct THEN <<>> ELSE <<46>>)
                    ELSE IF last_is_punct THEN str_slice(drctn, 0, Len(drctn) - 1) ELSE drctn
         IN  [status |-> "ok",
              value |-> capitalize_matches(res, drctn, matches_of(drctn, to_capitalize))]

\* Script._modify_line appending '.' whatever the last character is
_modify_line_always_dot(line) ==
    IF Len(line) = 0 THEN [status |-> "IndexError", value |-> line]
    ELSE [status |-> "ok", value |-> line \o <<46>>]

\* Script._modify_line
_modify_line(line) ==
    IF Len(line) = 0 THEN [status |-> "IndexError", value |-> line]
    ELSE IF line[Len(line)] \notin string_punctuation
         THEN [status |-> "ok", value |-> line \o <<46>>]
         ELSE [status |-> "ok", value |-> line]

\* the first four lines of Script.add_section: the section as the formatter
\* leaves it, and whether the formatter raised on the way
format_section(section, to_capitalize) ==
    IF section.cls = "StageDirection"
    THEN LET d == _modify_stage_drctn(section.direction, TRUE, to_capitalize)
         IN  [status |-> d.status,
              value |-> IF d.status = "ok" THEN [section EXCEPT !.direction = d.value]
                        ELSE section]
    ELSE IF section.cls = "CharacterLine"
    THEN LET d == _modify_stage_drctn(section.stage_drctn, FALSE, to_capitalize)
             s1 == IF d.status = "ok" THEN [section EXCEPT !.stage_drctn = d.value]
                   ELSE section
             l == _modify_line(section.line)
         IN  IF d.status # "ok" THEN [status |-> d.status, value |-> section]
             ELSE IF l.status # "ok" THEN [status |-> l.status, value |-> s1]
             ELSE [status |-> "ok", value |-> [s1 EXCEPT !.line = l.value]]
    ELSE [status |-> "ok", value |-> section]

-----------------------------------------------------------------------------
(* The state: one Script (view_controller.SCRIPT) and what its caller holds *)

VARIABLES
    title,          \* Script.title, None while unset
    subtitle,       \* Script.subtitle, None for no subtitle
    _characters,    \* Script._characters, a set of str
    _locations,     \* Script._locations, a set of str
    _scenes,        \* Script._scenes, a list of references to Scene objects
    heap,           \* the Scene and Section objects
    got,            \* the Scene the caller obtained from get_scene, 0 if none
    arg,            \* the Section the caller passed to the last add_section, 0 if none
    copied,         \* the Script the last copy() returned: <<>> or <<its fields>>
    json_out,       \* the data generate_script dumped to the .json file: <<>> or <<data>>
    ret             \* the last call and how it ended

vars == <<title, subtitle, _characters, _locations, _scenes, heap, got, arg, copied, json_out, ret>>

script == <<title, subtitle, _characters, _locations, _scenes>>

\* what a call leaves behind: its name and arguments, "ok" or the exception
\* raised, and the int or str returned
Ret(op, scene_num, section_idx, status, num, text) ==
    [op |-> op, scene_num |-> scene_num, section_idx |-> section_idx,
     status |-> status, num |-> num, text |-> text]

\* the names that keep objects alive: the Script's scenes, the caller's
\* Scene and Section, and the scenes of the Script copy() returned
names(scenes, g, a, cp) ==
    scenes \o <<g, a>> \o (IF cp = <<>> THEN <<>> ELSE cp[1]._scenes)

\* the state a call leaves: the heap h and the names into it
store(h, scenes, g, a, cp) ==
    LET order == heap_order(h, names(scenes, g, a, cp))
    IN  /\ heap' = heap_renamed(h, order)
        /\ _scenes' = [i \in DOMAIN scenes |-> place(order, scenes[i])]
        /\ got' = place(order, g)
        /\ arg' = place(order, a)
        /\ copied' = IF cp = <<>> THEN <<>>
                     ELSE <<[cp[1] EXCEPT !._scenes = [i \in DOMAIN @ |-> place(order, @[i])]]>>

\* Script.num_scenes
num_scenes == Len(_scenes)

\* the sections the Script holds, over all its scenes
RECURSIVE sum_sections(_, _)
sum_sections(h, scenes) ==
    IF scenes = <<>> THEN 0
    ELSE Scene_num_sections(h[Head(scenes)]) + sum_sections(h, Tail(scenes))

\* self._scenes[self._scene_num_to_idx(scene_num)]: the Scene addressed, or
\* the IndexError either step raises
resolve_scene(scene_num) ==
    LET idx == _scene_num_to_idx(scene_num, num_scenes)
    IN  IF idx.status # "ok" THEN [status |-> idx.status, value |-> 0]
        ELSE IF ~list_index_ok(num_scenes, idx.value) THEN [status |-> "IndexError", value |-> 0]
        ELSE [status |-> "ok", value |-> _scenes[list_pos(num_scenes, idx.value)]]

Init ==
    /\ title = None
    /\ subtitle = None
    /\ _characters = {}
    /\ _locations = {}
    /\ _scenes = <<>>
    /\ heap = <<>>
    /\ got = 0
    /\ arg = 0
    /\ copied = <<>>
    /\ json_out = <<>>
    /\ ret = Ret("__init__", 0, 0, "ok", 0, <<>>)

-----------------------------------------------------------------------------
(* Script's public methods, one action per call *)

set_title(t) ==
    /\ title' = t
    /\ store(heap, _scenes, got, 0, copied)
    /\ UNCHANGED json_out
    /\ ret' = Ret("set_title", 0, 0, "ok", 0, <<>>)
    /\ UNCHANGED <<subtitle, _characters, _locations>>

set_subtitle(t) ==
    /\ subtitle' = t
    /\ store(heap, _scenes, got, 0, copied)
    /\ UNCHANGED json_out
    /\ ret' = Ret("set_subtitle", 0, 0, "ok", 0, <<>>)
    /\ UNCHANGED <<title, _characters, _locations>>

\* add_character running the formatter over the stage directions already
\* stored, with the roster as it is after the call
add_character_retroactive(character) ==
    /\ _characters' = IF character \in _characters THEN _characters
                      ELSE _characters \cup {character}
    /\ \E to_capitalize \in set_orders(_characters \cup {character} \cup _locations) :
           store([r \in DOMAIN heap |->
                     IF heap[r].cls = "StageDirection"
                     THEN [heap[r] EXCEPT !.direction =
                              _modify_stage_drctn(@, TRUE, to_capitalize).value]
                     ELSE heap[r]],
                 _scenes, got, 0, copied)
    /\ UNCHANGED json_out
    /\ ret' = Ret("add_character", 0, 0, "ok", IF character \in _characters THEN 0 ELSE 1, <<>>)
    /\ UNCHANGED <<title, subtitle, _locations>>

\* returns False (num 0) if the character is already there, True (num 1) if added
add_character(character) ==
    /\ _characters' = IF character \in _characters THEN _characters
                      ELSE _characters \cup {character}
    /\ store(heap, _scenes, got, 0, copied)
    /\ UNCHANGED json_out
    /\ ret' = Ret("add_character", 0, 0, "ok", IF character \in _characters THEN 0 ELSE 1, <<>>)
    /\ UNCHANGED <<title, subtitle, _locations>>

add_location(location) ==
    /\ _locations' = IF location \in _locations THEN _locations
                     ELSE _locations \cup {location}
    /\ store(heap, _scenes, got, 0, copied)
    /\ UNCHANGED json_out
    /\ ret' = Ret("add_location", 0, 0, "ok", IF location \in _locations THEN 0 ELSE 1, <<>>)
    /\ UNCHANGED <<title, subtitle, _characters>>

\* add_scene numbering the new scene from 0, as a list index would
add_scene_from_zero(sections) ==
    /\ num_scenes < MaxScenes
    /\ LET r == new_ref(heap)
       IN  store(heap_put(heap, r, Scene(Len(_scenes), sections)),
                 Append(_scenes, r), got, 0, copied)
    /\ UNCHANGED json_out
    /\ ret' = Ret("add_scene", 0, 0, "ok", 0, <<>>)
    /\ UNCHANGED <<title, subtitle, _characters, _locations>>

\* self._scenes.append(Scene(len(self._scenes) + 1, *sections))
add_scene(sections) ==
    /\ num_scenes < MaxScenes
    /\ LET r == new_ref(heap)
       IN  store(heap_put(heap, r, Scene(Len(_scenes) + 1, sections)),
                 Append(_scenes, r), got, 0, copied)
    /\ UNCHANGED json_out
    /\ ret' = Ret("add_scene", 0, 0, "ok", 0, <<>>)
    /\ UNCHANGED <<title, subtitle, _characters, _locations>>

\* the caller constructs the section and passes it; the formatter works on
\* that object, which the caller still holds when the call is over
add_section(scene_num, section) ==
    \E to_capitalize \in set_orders(_characters \cup _locations) :
        LET r == new_ref(heap)
            fmt == format_section(section, to_capitalize)
            h1 == heap_put(heap, r, fmt.value)
            scene == resolve_scene(scene_num)
            status == IF fmt.status # "ok" THEN fmt.status ELSE scene.status
        IN  /\ status = "ok" => sum_sections(heap, _scenes) < MaxSections
            /\ store(IF status = "ok"
                     THEN heap_put(h1, scene.value, Scene_add_section(h1[scene.value], r))
                     ELSE h1,
                     _scenes, got, r, copied)
            /\ UNCHANGED json_out
            /\ ret' = Ret("add_section", scene_num, 0, status, 0, <<>>)
            /\ UNCHANGED <<title, subtitle, _characters, _locations>>

\* returns a copy of the Scene, which the caller holds from then on
get_scene(scene_num) ==
    LET scene == resolve_scene(scene_num)
        cp == Scene_copy(heap, scene.value)
    IN  /\ IF scene.status = "ok"
           THEN store(cp.heap, _scenes, cp.ref, 0, copied)
           ELSE store(heap, _scenes, got, 0, copied)
        /\ UNCHANGED json_out
        /\ ret' = Ret("get_scene", scene_num, 0, scene.status, 0, <<>>)
        /\ UNCHANGED <<title, subtitle, _characters, _locations>>

get_scene_length(scene_num) ==
    LET scene == resolve_scene(scene_num)
    IN  /\ UNCHANGED json_out
        /\ ret' = Ret("get_scene_length", scene_num, 0, scene.status,
                      IF scene.status = "ok" THEN Scene_num_sections(heap[scene.value]) ELSE 0,
                      <<>>)
        /\ store(heap, _scenes, got, 0, copied)
        /\ UNCHANGED <<title, subtitle, _characters, _locations>>

delete_section(scene_num, section_idx) ==
    LET scene == resolve_scene(scene_num)
        del == Scene_delete_section(heap[scene.value], section_idx)
        status == IF scene.status # "ok" THEN scene.status ELSE del.status
    IN  /\ store(IF status = "ok" THEN heap_put(heap, scene.value, del.value) ELSE heap,
                 _scenes, got, 0, copied)
        /\ UNCHANGED json_out
        /\ ret' = Ret("delete_section", scene_num, section_idx, status, 0, <<>>)
        /\ UNCHANGED <<title, subtitle, _characters, _locations>>

\* Script.export_to_markdown formatting the subtitle without asking whether
\* there is one (None prints as 'None')
Script_export_subtitle_unchecked(h, t, sub, scenes) ==
    IF t = None THEN [status |-> "ValueError", value |-> <<>>]
    ELSE LET subtitle_str == <<10, 10>> \o (IF sub = None THEN <<78, 111, 110, 101>> ELSE sub)
             title_str == <<35, 32>> \o t \o subtitle_str
             scenes_str == str_join(<<10, 10, 60, 98, 114, 47, 62, 10, 10, 60, 98, 114, 47, 62, 10, 10>>,
                                    [i \in DOMAIN scenes |-> Section_export_to_markdown(h, scenes[i])])
         IN  [status |-> "ok",
              value |-> title_str \o <<10, 10, 60, 98, 114, 47, 62, 10, 10, 60, 98, 114, 47, 62, 10, 10>>
                        \o scenes_str]

\* Script.export_to_markdown, on the Script's fields
Script_export_to_markdown(h, t, sub, scenes) ==
    IF t = None THEN [status |-> "ValueError", value |-> <<>>]
    ELSE LET subtitle_str == IF sub = None THEN <<>> ELSE <<10, 10>> \o sub
             title_str == <<35, 32>> \o t \o subtitle_str
             scenes_str == str_join(<<10, 10, 60, 98, 114, 47, 62, 10, 10, 60, 98, 114, 47, 62, 10, 10>>,
                                    [i \in DOMAIN scenes |-> Section_export_to_markdown(h, scenes[i])])
         IN  [status |-> "ok",
              value |-> title_str \o <<10, 10, 60, 98, 114, 47, 62, 10, 10, 60, 98, 114, 47, 62, 10, 10>>
                        \o scenes_str]

export_to_markdown ==
    LET md == Script_export_to_markdown(heap, title, subtitle, _scenes)
    IN  /\ UNCHANGED json_out
        /\ ret' = Ret("export_to_markdown", 0, 0, md.status, 0, md.value)
        /\ store(heap, _scenes, got, 0, copied)
        /\ UNCHANGED <<title, subtitle, _characters, _locations>>

\* self.<name> on the Script: AttributeError unless the Script has the name
Script_getattr(name) ==
    IF name \notin Script_attributes THEN [status |-> "AttributeError", value |-> None]
    ELSE [status |-> "ok",
          value |-> CASE name = "title" -> title
                      [] name = "subtitle" -> subtitle
                      [] OTHER -> None]

\* [res.add_scene(s.copy()) for s in self._scenes]: each copy is passed to
\* add_scene as the one section of a new Scene of res
RECURSIVE copy_scenes(_, _, _)
copy_scenes(h, scenes, done) ==
    IF scenes = <<>> THEN [heap |-> h, refs |-> done]
    ELSE LET cp == Scene_copy(h, Head(scenes))
             r == new_ref(cp.heap)
         IN  copy_scenes(heap_put(cp.heap, r, Scene(Len(done) + 1, <<cp.ref>>)),
                         Tail(scenes), Append(done, r))

\* Script.copy
copy ==
    LET t == Script_getattr("_title")
        sub == Script_getattr("_subtitle")
        status == IF t.status # "ok" THEN t.status ELSE sub.status
        cp == copy_scenes(heap, _scenes, <<>>)
    IN  /\ IF status = "ok"
           THEN store(cp.heap, _scenes, got, 0,
                      <<[title |-> t.value, subtitle |-> sub.value,
                         _characters |-> _characters, _locations |-> _locations,
                         _scenes |-> cp.refs]>>)
           ELSE store(heap, _scenes, got, 0, <<>>)
        /\ UNCHANGED json_out
        /\ ret' = Ret("copy", 0, 0, status, 0, <<>>)
        /\ UNCHANGED <<title, subtitle, _characters, _locations>>

-----------------------------------------------------------------------------
(* What the caller does with the Scene it got from get_scene *)

\* scene.add_section(section), with a section the caller constructs
got_add_section(section) ==
    /\ got # 0
    /\ Scene_num_sections(heap[got]) < MaxSections
    /\ LET r == new_ref(heap)
       IN  store(heap_put(heap_put(heap, r, section), got, Scene_add_section(heap[got], r)),
                 _scenes, got, 0, copied)
    /\ UNCHANGED json_out
    /\ ret' = Ret("Scene.add_section", 0, 0, "ok", 0, <<>>)
    /\ UNCHANGED <<title, subtitle, _characters, _locations>>

\* scene.delete_section(section_num)
got_delete_section(section_num) ==
    /\ got # 0
    /\ LET del == Scene_delete_section(heap[got], section_num)
       IN  /\ store(heap_put(heap, got, del.value), _scenes, got, 0, copied)
           /\ UNCHANGED json_out
           /\ ret' = Ret("Scene.delete_section", 0, section_num, del.status, 0, <<>>)
    /\ UNCHANGED <<title, subtitle, _characters, _locations>>

\* scene.get_section(section_num).export_to_markdown()
got_get_section(section_num) ==
    /\ got # 0
    /\ LET sec == Scene_get_section(heap[got], section_num)
       IN  ret' = Ret("Scene.get_section", 0, section_num, sec.status, 0,
                      IF sec.status = "ok" THEN Section_export_to_markdown(heap, sec.value)
                      ELSE <<>>)
    /\ store(heap, _scenes, got, 0, copied)
    /\ UNCHANGED <<title, subtitle, _characters, _locations, json_out>>

\* the section with its text attribute set to text
Section_set_text(obj, text) ==
    CASE obj.cls = "RawSection" -> [obj EXCEPT !.markdown = text]
      [] obj.cls = "CharacterLine" -> [obj EXCEPT !.line = text]
      [] obj.cls = "StageDirection" -> [obj EXCEPT !.direction = text]
      [] OTHER -> obj

\* section = scene.get_section(section_num), then an assignment to the text
\* attribute of section
got_set_text(section_num, text) ==
    /\ got # 0
    /\ LET sec == Scene_get_section(heap[got], section_num)
       IN  /\ store(IF sec.status = "ok"
                    THEN heap_put(heap, sec.value, Section_set_text(heap[sec.value], text))
                    ELSE heap,
                    _scenes, got, 0, copied)
           /\ UNCHANGED json_out
           /\ ret' = Ret("Section.set_text", 0, section_num, sec.status, 0, <<>>)
    /\ UNCHANGED <<title, subtitle, _characters, _locations>>

-----------------------------------------------------------------------------
(* The calls the model makes *)

Play == <<80, 108, 97, 121>>                            \* 'Play'
Sub == <<83, 117, 98>>                                  \* 'Sub'
Bob == <<66, 111, 98>>                                  \* 'Bob'
Inn == <<105, 110, 110>>                                \* 'inn'
bob == <<98, 111, 98>>                                  \* 'bob'
inn_dot == <<105, 110, 110, 46>>                        \* 'inn.'
hi == <<104, 105>>                                      \* 'hi'
hi_bang == <<104, 105, 33>>                             \* 'hi!'

two_pars == <<72, 105, 46, 10, 10, 66, 121, 101>>       \* 'Hi.\n\nBye'

Titles == {None, Play}
Subtitles == {None, Sub}
CharacterNames == {Bob}
LocationNames == {Inn}

\* scene numbers: every number a Script of up to MaxScenes scenes accepts,
\* and numbers beyond them on both sides
SceneNums == (-(2 * MaxScenes) - 1)..(MaxScenes + 1)

\* section indexes: likewise for a Scene of up to MaxSections sections
SectionIdxs == (-MaxSections - 1)..MaxSections

\* Building a Script: the calls main and the editor's callbacks make while
\* the roster grows, with a stage direction that names a character and one
\* left empty
BuildSections == {StageDirection(bob), StageDirection(<<>>)}

Next ==
    \/ \E t \in Titles : set_title(t)
    \/ \E t \in Subtitles : set_subtitle(t)
    \/ \E c \in CharacterNames : add_character(c)
    \/ \E l \in LocationNames : add_location(l)
    \/ add_scene(<<>>)
    \/ \E n \in 0..(MaxScenes + 1), s \in BuildSections : add_section(n, s)
    \/ \E n \in 0..(MaxScenes + 1), i \in 0..1 : delete_section(n, i)
    \/ copy

Spec == Init /\ [][Next]_vars

\* Exporting a Script whose scenes hold sections of every class
ExportSections ==
    {StageDirection(two_pars), CharacterLine(bob, hi, inn_dot),
     CharacterLine(bob, hi_bang, None), RawSection(bob)}

NextExport ==
    \/ \E t \in Titles : set_title(t)
    \/ \E t \in Subtitles : set_subtitle(t)
    \/ add_scene(<<>>)
    \/ \E n \in 1..MaxScenes, s \in ExportSections : add_section(n, s)
    \/ export_to_markdown

SpecExport == Init /\ [][NextExport]_vars

\* Addressing scenes by number, over every number of SceneNums
NextIndex ==
    \/ add_scene(<<>>)
    \/ \E n \in SceneNums : add_section(n, RawSection(bob))
    \/ \E n \in SceneNums : get_scene(n)
    \/ \E n \in SceneNums : get_scene_length(n)
    \/ \E n \in SceneNums : delete_section(n, 0)

SpecIndex == Init /\ [][NextIndex]_vars

\* Working on the Scene get_scene returned, over every index of SectionIdxs
NextClone ==
    \/ add_scene(<<>>)
    \/ \E n \in {1, -1} : add_section(n, CharacterLine(bob, hi_bang, None))
    \/ \E n \in {1, -1} : get_scene(n)
    \/ \E i \in SectionIdxs : delete_section(1, i)
    \/ got_add_section(RawSection(bob))
    \/ \E i \in SectionIdxs : got_delete_section(i)
    \/ \E i \in SectionIdxs : got_get_section(i)
    \/ \E i \in {0, -1} : got_set_text(i, hi)

SpecClone == Init /\ [][NextClone]_vars

-----------------------------------------------------------------------------
(* Rendering one section: the caller holds a section it constructed and      *)
(* calls its export_to_markdown                                              *)

smiling == <<115, 109, 105, 108, 105, 110, 103>>        \* 'smiling'
hello_dot == <<104, 101, 108, 108, 111, 46>>            \* 'hello.'

RenderSections ==
    {CharacterLine(c, l, d) : c \in {bob, Bob, Inn}, l \in {hi, hi_bang, hello_dot, two_pars, <<>>},
                              d \in {None, smiling, inn_dot, bob, <<>>}}
    \cup {StageDirection(two_pars), StageDirection(bob), RawSection(bob)}

InitRender ==
    /\ title = None
    /\ subtitle = None
    /\ _characters = {}
    /\ _locations = {}
    /\ _scenes = <<>>
    /\ \E section \in RenderSections : heap = <<section>>
    /\ got = 0
    /\ arg = 1
    /\ copied = <<>>
    /\ json_out = <<>>
    /\ ret = Ret("__init__", 0, 0, "ok", 0, <<>>)

\* section.export_to_markdown() on the section the caller holds
arg_export_to_markdown ==
    /\ arg # 0
    /\ UNCHANGED json_out
    /\ ret' = Ret("Section.export_to_markdown", 0, 0, "ok", 0,
                  Section_export_to_markdown(heap, arg))
    /\ store(heap, _scenes, got, arg, copied)
    /\ UNCHANGED <<title, subtitle, _characters, _locations>>

NextRender == arg_export_to_markdown

SpecRender == InitRender /\ [][NextRender]_vars

-----------------------------------------------------------------------------
(* The formatter's functions on their own: the caller holds a str and passes *)
(* it to _modify_stage_drctn or _modify_line, and holds the result from then *)
(* on.  ret.num counts how many times in a row the same function has been    *)
(* applied to its own result (1 the first time, 2 from the second on).       *)

\* 'b', '.', '!', '_'
FormatChars == {98, 46, 33, 95}

\* the strs of at most n characters
Texts(n) == UNION {[1..k -> FormatChars] : k \in 0..n}

\* 'b' as a character name
b_name == <<98>>

InitFormat ==
    /\ title = None
    /\ subtitle = None
    /\ _characters \in {{}, {b_name}}
    /\ _locations = {}
    /\ _scenes = <<>>
    /\ heap = <<>>
    /\ got = 0
    /\ arg = 0
    /\ copied = <<>>
    /\ json_out = <<>>
    /\ \E text \in Texts(MaxLen) : ret = Ret("str", 0, 0, "ok", 0, text)

\* how many times in a row op has been applied once it is applied now
in_a_row(op) == IF ret.op = op THEN 2 ELSE 1

\* self._modify_stage_drctn(drctn, punct) on the str the caller holds
apply_modify_stage_drctn(punct) ==
    /\ ret.status = "ok"
    /\ \E to_capitalize \in set_orders(_characters \cup _locations) :
           LET op == IF punct THEN "_modify_stage_drctn(punct=True)"
                     ELSE "_modify_stage_drctn(punct=False)"
               res == _modify_stage_drctn(ret.text, punct, to_capitalize)
           IN  ret' = Ret(op, 0, 0, res.status, in_a_row(op), res.value)
    /\ UNCHANGED <<title, subtitle, _characters, _locations, _scenes, heap, got, arg, copied,
                   json_out>>

\* self._modify_line(line) on the str the caller holds
apply_modify_line ==
    /\ ret.status = "ok"
    /\ LET res == _modify_line(ret.text)
       IN  ret' = Ret("_modify_line", 0, 0, res.status, in_a_row("_modify_line"), res.value)
    /\ UNCHANGED <<title, subtitle, _characters, _locations, _scenes, heap, got, arg, copied,
                   json_out>>

NextFormat ==
    \/ apply_modify_stage_drctn(TRUE)
    \/ apply_modify_stage_drctn(FALSE)
    \/ apply_modify_line

SpecFormat == InitFormat /\ [][NextFormat]_vars

-----------------------------------------------------------------------------
(* The view: generate_script rebuilds the Script's scenes from the section   *)
(* widgets and writes the Markdown and the .json file; main ingests a .json  *)
(* file into a new Script.  What the widgets hold when the button is pressed *)
(* is the user's input.  json.dump and json.load keep str, None, list and    *)
(* dict values as they are, so the file is the data written to it.           *)

\* a < b for two str
str_lt(a, b) ==
    \E k \in 1..(Len(a) + 1) :
        /\ k <= Len(b)
        /\ \A j \in 1..(k - 1) : a[j] = b[j]
        /\ k <= Len(a) => a[k] < b[k]

\* sorted(S) for a set of str
sorted(S) == CHOOSE l \in set_orders(S) : \A i \in 1..(Len(l) - 1) : str_lt(l[i], l[i + 1])

\* the widgets of one section, with the values of their input fields
line_item(char_name, char_drctn, char_line) ==
    [user_data |-> "line", char_name |-> char_name, char_drctn |-> char_drctn,
     char_line |-> char_line]

drctn_item(drctn) == [user_data |-> "drctn", drctn |-> drctn]

rawmd_item(rawmd) == [user_data |-> "rawmd", rawmd |-> rawmd]

\* generate_script: the stage direction of a line widget, None for an empty field
item_stage_drctn(item) ==
    IF item.char_drctn # None /\ Len(item.char_drctn) > 0 THEN item.char_drctn ELSE None

\* generate_script: the section constructed from a widget
section_of_item(item) ==
    CASE item.user_data = "line" ->
             CharacterLine(item.char_name, item.char_line, item_stage_drctn(item))
      [] item.user_data = "drctn" -> StageDirection(item.drctn)
      [] item.user_data = "rawmd" -> RawSection(item.rawmd)

\* generate_script: the dict appended to data['scenes'][-1] for a widget
record_of_item(item) ==
    CASE item.user_data = "line" ->
             [type |-> "line", name |-> item.char_name, drctn |-> item_stage_drctn(item),
              line |-> item.char_line]
      [] item.user_data = "drctn" -> [type |-> "drctn", drctn |-> item.drctn]
      [] item.user_data = "rawmd" -> [type |-> "rawmd", rawmd |-> item.rawmd]

\* main: the section constructed from a dict of the file; len(None) raises
section_of_record(rec) ==
    CASE rec.type = "line" ->
             IF rec.drctn = None THEN [status |-> "TypeError", value |-> None]
             ELSE [status |-> "ok",
                   value |-> CharacterLine(rec.name, rec.line,
                                           IF Len(rec.drctn) > 2 THEN rec.drctn ELSE None)]
      [] rec.type = "drctn" -> [status |-> "ok", value |-> StageDirection(rec.drctn)]
      [] rec.type = "rawmd" -> [status |-> "ok", value |-> RawSection(rec.rawmd)]

\* SCRIPT.add_section(scene_num, section) on the Scene at scene_ref, fmt
\* being what the formatter made of the section and r the section's reference
add_formatted(fmt, h, r, scene_ref) ==
    IF fmt.status # "ok" THEN [status |-> fmt.status, heap |-> heap_put(h, r, fmt.value)]
    ELSE [status |-> "ok",
          heap |-> heap_put(heap_put(h, r, fmt.value), scene_ref,
                            Scene_add_section(h[scene_ref], r))]

RECURSIVE add_sections(_, _, _, _, _)
\* the loop over the sections goes on after the call that ended as added,
\* unless that call raised
add_sections_next(added, scene_ref, built, k, to_capitalize) ==
    IF added.status # "ok" THEN added
    ELSE add_sections(added.heap, scene_ref, built, k, to_capitalize)

\* SCRIPT.add_section(scene_num, section) for the sections built[k], ...,
\* in turn, on the Scene at scene_ref, until one raises
add_sections(h, scene_ref, built, k, to_capitalize) ==
    IF k > Len(built) THEN [status |-> "ok", heap |-> h]
    ELSE IF built[k].status # "ok" THEN [status |-> built[k].status, heap |-> h]
    ELSE add_sections_next(add_formatted(format_section(built[k].value, to_capitalize),
                                         h, new_ref(h), scene_ref),
                           scene_ref, built, k + 1, to_capitalize)

RECURSIVE rebuild_scenes(_, _, _, _)
\* the for loop of generate_script goes on after the scene whose rebuilding
\* ended as added, unless a call raised
rebuild_scenes_next(added, children, p, to_capitalize) ==
    IF added.status # "ok" THEN added
    ELSE rebuild_scenes(added.heap, children, p, to_capitalize)

\* the for loop of generate_script from scene p on: empty the scene, then
\* add a section for each of its widgets
rebuild_scenes(h, children, p, to_capitalize) ==
    IF p > Len(_scenes) THEN [status |-> "ok", heap |-> h]
    ELSE rebuild_scenes_next(
             add_sections(heap_put(h, _scenes[p], [h[_scenes[p]] EXCEPT !._sections = <<>>]),
                          _scenes[p],
                          [k \in DOMAIN children[p] |->
                              [status |-> "ok", value |-> section_of_item(children[p][k])]],
                          1, to_capitalize),
             children, p + 1, to_capitalize)

\* the data generate_script collects
mirror_data(children) ==
    [title |-> title, subtitle |-> subtitle,
     characters |-> sorted(_characters), locations |-> sorted(_locations),
     scenes |-> [p \in DOMAIN children |->
                    [k \in DOMAIN children[p] |-> record_of_item(children[p][k])]]]

\* the end of generate_script, the for loop having ended as rebuilt: the
\* Markdown and the data are written unless a call raised
generate_script_write(rebuilt, md, children) ==
    /\ store(rebuilt.heap, _scenes, got, 0, copied)
    /\ json_out' = IF rebuilt.status = "ok" /\ md.status = "ok"
                   THEN <<mirror_data(children)>> ELSE json_out
    /\ ret' = Ret("generate_script", 0, 0,
                  IF rebuilt.status # "ok" THEN rebuilt.status ELSE md.status, 0,
                  IF rebuilt.status = "ok" /\ md.status = "ok" THEN md.value ELSE <<>>)
    /\ UNCHANGED <<title, subtitle, _characters, _locations>>

\* generate_script, children[p] being the section widgets of 'Scene p'; the
\* file path ends in '.md'
generate_script(children) ==
    \E to_capitalize \in set_orders(_characters \cup _locations) :
        generate_script_write(rebuild_scenes(heap, children, 1, to_capitalize),
                              Script_export_to_markdown(
                                  rebuild_scenes(heap, children, 1, to_capitalize).heap,
                                  title, subtitle, _scenes),
                              children)

RECURSIVE ingest_scenes(_, _, _, _, _)
\* the for loop of main goes on after the scene at r, whose sections were
\* added with the result added, unless a call raised
ingest_scenes_next(added, scenes, data_scenes, p, to_capitalize) ==
    IF added.status # "ok"
    THEN [status |-> added.status, heap |-> added.heap, scenes |-> scenes]
    ELSE ingest_scenes(added.heap, scenes, data_scenes, p, to_capitalize)

\* the for loop of main over data['scenes'] from scene p on
ingest_scenes(h, scenes, data_scenes, p, to_capitalize) ==
    IF p > Len(data_scenes) THEN [status |-> "ok", heap |-> h, scenes |-> scenes]
    ELSE ingest_scenes_next(
             add_sections(heap_put(h, new_ref(h), Scene(Len(scenes) + 1, <<>>)),
                          new_ref(h),
                          [k \in DOMAIN data_scenes[p] |-> section_of_record(data_scenes[p][k])],
                          1, to_capitalize),
             Append(scenes, new_ref(h)), data_scenes, p + 1, to_capitalize)

\* main(data) once the for loops have ended as built
main_ingested(data, built) ==
    /\ title' = data.title
    /\ subtitle' = data.subtitle
    /\ _characters' = {data.characters[i] : i \in DOMAIN data.characters}
    /\ _locations' = {data.locations[i] : i \in DOMAIN data.locations}
    /\ store(built.heap, built.scenes, 0, 0, <<>>)
    /\ ret' = Ret("main", 0, 0, built.status, 0, <<>>)
    /\ UNCHANGED json_out

\* main(data) up to the call of vc.run(), in a new process (SCRIPT is a new
\* Script) started on the file generate_script wrote
main ==
    /\ json_out # <<>>
    /\ \E to_capitalize \in set_orders({json_out[1].characters[i] : i \in DOMAIN json_out[1].characters}
                                       \cup {json_out[1].locations[i] : i \in DOMAIN json_out[1].locations}) :
           main_ingested(json_out[1],
                         ingest_scenes(<<>>, <<>>, json_out[1].scenes, 1, to_capitalize))

\* what the user may have put into a section widget
WidgetItems == {line_item(bob, <<>>, hi), drctn_item(bob), rawmd_item(bob)}

\* the widget sequences of at most n widgets
ItemSeqs(n) == UNION {[1..k -> WidgetItems] : k \in 0..n}

\* the widgets of p scenes, at most n in all
RECURSIVE Children(_, _)
Children(p, n) ==
    IF p = 0 THEN {<<>>}
    ELSE UNION {{Append(c, items) : c \in Children(p - 1, n - Len(items))} :
                   items \in ItemSeqs(n)}

NextMirror ==
    \/ set_title(Play)
    \/ add_character(Bob)
    \/ add_scene(<<>>)
    \/ \E children \in Children(Len(_scenes), MaxSections) : generate_script(children)
    \/ main

SpecMirror == Init /\ [][NextMirror]_vars

-----------------------------------------------------------------------------
(* What the claims speak of *)

\* the sections of the Scene at reference r, by value, in stored order
sections_of(h, r) == [k \in DOMAIN h[r]._sections |-> h[h[r]._sections[k]]]

\* the sections the Script stores: stored[i][k] is section k of the scene at
\* position i, by value
stored == [i \in DOMAIN _scenes |-> sections_of(heap, _scenes[i])]

\* the number of the scene at each position
scene_nums == [i \in DOMAIN _scenes |-> heap[_scenes[i]]._scene_num]

-----------------------------------------------------------------------------
\* C1: in every state reached by add_scene, add_section, delete_section,
\* add_character, add_location, set_title and set_subtitle calls, failing
\* calls included, the scene at zero-based position i has number i + 1
\* (position p of the 1-based sequence has number p), and no step changes
\* the number of a scene that exists.
C1_SceneNumbering ==
    /\ [](\A p \in DOMAIN _scenes : scene_nums[p] = p)
    /\ [][\A p \in DOMAIN _scenes : p \in DOMAIN _scenes' /\ scene_nums'[p] = scene_nums[p]]_vars

\* two scenes exist, the first holds a section, and a call has just failed
C1_Witness ==
    /\ Len(_scenes) = 2
    /\ Len(stored[1]) >= 1
    /\ ret.op \in {"add_section", "delete_section"}
    /\ ret.status = "IndexError"

-----------------------------------------------------------------------------
\* the calls that address a scene by number
AddressingOps == {"add_section", "get_scene", "get_scene_length", "delete_section"}

\* C2: a scene-addressing call with an invalid scene number fails: 0 fails,
\* a number above the scene count fails, and a negative number below -count
\* (which resolves to a number below 1) fails.  No addressing call changes the
\* scene count, so the count after the call is the count the call saw.
C2_InvalidSceneNumberFails ==
    (/\ ret.op \in AddressingOps
     /\ \/ ret.scene_num = 0
        \/ ret.scene_num > Len(_scenes)
        \/ ret.scene_num < -Len(_scenes))
    => ret.status # "ok"

-----------------------------------------------------------------------------
\* what a successful addressing call does when it addresses the scene at
\* position p (1-based): add_section appends one section to it, delete_section
\* with index 0 removes its first section, get_scene_length returns its
\* length, get_scene hands out a Scene with its number and its sections; and
\* no other scene changes
AddressesScene(p) ==
    /\ ret'.status = "ok"
    /\ \A q \in DOMAIN stored : q # p => stored'[q] = stored[q]
    /\ ret'.op = "add_section" =>
           /\ Len(stored'[p]) = Len(stored[p]) + 1
           /\ SubSeq(stored'[p], 1, Len(stored[p])) = stored[p]
    /\ ret'.op = "delete_section" => stored'[p] = Tail(stored[p])
    /\ ret'.op = "get_scene_length" => stored' = stored /\ ret'.num = Len(stored[p])
    /\ ret'.op = "get_scene" =>
           /\ stored' = stored
           /\ got' # 0
           /\ heap'[got']._scene_num = p
           /\ sections_of(heap', got') = stored[p]

\* C10: with count >= 1 scenes, every n in 1..count and its negative twin
\* -(count - n + 1) address the same scene, the one at position n, in
\* add_section, get_scene, get_scene_length and delete_section; -1 addresses
\* the last scene.  (delete_section is called with index 0 and is looked at
\* when the scene holds a section.)
C10_NegativeTwin ==
    [][\A n \in DOMAIN _scenes :
          (/\ ret'.op \in AddressingOps
           /\ ret'.scene_num \in {n, -(Len(_scenes) - n + 1)}
           /\ ret'.op = "delete_section" => Len(stored[n]) > 0)
          => AddressesScene(n)]_vars

\* the first of two scenes, the only one holding a section, was addressed as
\* -2 and its length returned
C10_Witness ==
    /\ Len(_scenes) = 2
    /\ ret.op = "get_scene_length"
    /\ ret.scene_num = -2
    /\ ret.status = "ok"
    /\ Len(stored[1]) = 1
    /\ Len(stored[2]) = 0
    /\ ret.num = 1

-----------------------------------------------------------------------------
\* what the caller does to the Scene get_scene returned and to its sections
CloneOps == {"Scene.add_section", "Scene.delete_section", "Section.set_text"}

\* C3: get_scene returns a deep copy: whatever the caller does to the Scene
\* it got (add_section, delete_section) or to a section of it (an assignment
\* to its text), the Script's scenes keep their numbers, lengths, section
\* contents and Markdown.
C3_CloneIsolated ==
    [][ret'.op \in CloneOps =>
          /\ stored' = stored
          /\ scene_nums' = scene_nums
          /\ \A p \in DOMAIN _scenes :
                 Section_export_to_markdown(heap', _scenes'[p])
                     = Section_export_to_markdown(heap, _scenes[p])]_vars

\* the caller holds a copy of scene 1, has just assigned to the text of one
\* of its sections, and scene 1 of the Script still holds its own section
C3_Witness ==
    /\ ret.op = "Section.set_text"
    /\ ret.status = "ok"
    /\ got # 0
    /\ heap[got]._scene_num = 1
    /\ Len(stored[1]) >= 1
    /\ Len(sections_of(heap, got)) = Len(stored[1])
    /\ sections_of(heap, got) # stored[1]

-----------------------------------------------------------------------------
\* l without the element at zero-based index i
without(l, i) == SubSeq(l, 1, i) \o SubSeq(l, i + 2, Len(l))

\* a call with index i on a Scene whose sections were before and are after:
\* outside [0, length) it fails with IndexError and changes nothing; inside,
\* it succeeds, and a deletion removes exactly the section at i
IndexChecked(i, before, after, status, deleting) ==
    IF i \in 0..(Len(before) - 1)
    THEN status = "ok" /\ after = (IF deleting THEN without(before, i) ELSE before)
    ELSE status = "IndexError" /\ after = before

\* C9: Scene.get_section, Scene.delete_section and Script.delete_section fail
\* with an out-of-range error for every index outside [0, length), negative
\* ones included, and then leave the sections as they were; inside the range
\* delete_section removes exactly the section at that position.
C9_SectionIndexChecked ==
    [][/\ (got # 0 /\ ret'.op \in {"Scene.get_section", "Scene.delete_section"}) =>
              IndexChecked(ret'.section_idx, sections_of(heap, got),
                           sections_of(heap', got'), ret'.status,
                           ret'.op = "Scene.delete_section")
       /\ (ret'.op = "delete_section" /\ ret'.scene_num = 1 /\ Len(_scenes) >= 1) =>
              IndexChecked(ret'.section_idx, stored[1], stored'[1], ret'.status, TRUE)]_vars

-----------------------------------------------------------------------------
(* The Formatter as the specification words it *)

\* the text with '.' appended iff it has a final character and that
\* character is not punctuation
Punctuated(t) ==
    IF Len(t) > 0 /\ t[Len(t)] \notin string_punctuation THEN t \o <<46>> ELSE t

\* the text without its final character iff that character is punctuation
Stripped(t) ==
    IF Len(t) > 0 /\ t[Len(t)] \in string_punctuation THEN SubSeq(t, 1, Len(t) - 1) ELSE t

\* characters a+1..b of t are a whole-word occurrence of noun, in any case,
\* alone or followed by s or 's
WholeWord(t, noun, a, b) ==
    /\ re_boundary(t, a)
    /\ re_boundary(t, b)
    /\ [k \in 1..(b - a) |-> chr_lower(t[a + k])]
           \in {[k \in 1..Len(w) |-> chr_lower(w[k])] :
                   w \in {noun, noun \o <<115>>, noun \o <<39, 115>>}}

\* the text with every whole-word occurrence of a roster name upper-cased
Capitalized(t, roster) ==
    [k \in 1..Len(t) |->
        IF \E noun \in roster, a \in 0..Len(t), b \in 0..Len(t) :
               a < k /\ k <= b /\ WholeWord(t, noun, a, b)
        THEN chr_upper(t[k]) ELSE t[k]]

\* the section the Formatter makes of section under the roster
Formatted(section, roster) ==
    CASE section.cls = "StageDirection" ->
             [section EXCEPT !.direction = Punctuated(Capitalized(@, roster))]
      [] section.cls = "CharacterLine" ->
             [section EXCEPT !.line = Punctuated(@),
                             !.stage_drctn = IF @ = None THEN None
                                             ELSE Stripped(Capitalized(@, roster))]
      [] OTHER -> section

-----------------------------------------------------------------------------
\* C4: copy() of any reachable Script succeeds and returns a Script with the
\* same title, subtitle and rosters and as many scenes, scene k of the copy
\* having number k and the sections of scene k of the original, so that both
\* export the same Markdown.
C4_CopyEqualsOriginal ==
    ret.op = "copy" =>
        /\ ret.status = "ok"
        /\ copied # <<>>
        /\ copied[1].title = title
        /\ copied[1].subtitle = subtitle
        /\ copied[1]._characters = _characters
        /\ copied[1]._locations = _locations
        /\ Len(copied[1]._scenes) = Len(_scenes)
        /\ \A k \in DOMAIN _scenes :
               /\ heap[copied[1]._scenes[k]]._scene_num = k
               /\ sections_of(heap, copied[1]._scenes[k]) = stored[k]
        /\ Script_export_to_markdown(heap, copied[1].title, copied[1].subtitle,
                                     copied[1]._scenes)
               = Script_export_to_markdown(heap, title, subtitle, _scenes)

-----------------------------------------------------------------------------
\* C5: add_section(n, s) with a valid scene number n appends exactly one
\* section to scene n, and what is stored is the Formatter's result for s
\* under the current roster: a stage direction punctuated and with the roster
\* names upper-cased, a line punctuated and not capitalized, a line's stage
\* direction stripped of one trailing punctuation character and with the
\* roster names upper-cased, raw Markdown as it is.
C5_AddSectionFormats ==
    [][\A n \in DOMAIN _scenes, s \in BuildSections :
          (ret'.op = "add_section" /\ ret'.scene_num = n /\ add_section(n, s)) =>
              /\ ret'.status = "ok"
              /\ stored'[n] = Append(stored[n], Formatted(s, _characters \cup _locations))
              /\ \A q \in DOMAIN _scenes : q # n => stored'[q] = stored[q]]_vars

-----------------------------------------------------------------------------
\* the calls that insert no section
NonInsertingOps == {"add_character", "add_location", "set_title", "set_subtitle", "add_scene"}

\* C8: the Formatter is not applied retroactively.  add_character,
\* add_location, set_title, set_subtitle and add_scene leave every stored
\* section of every scene as it is; add_section leaves every section stored
\* before it as it is, and the one it inserts is formatted under the roster
\* as it is at that call.
C8_NotRetroactive ==
    [][/\ ret'.op \in NonInsertingOps =>
              \A p \in DOMAIN _scenes : stored'[p] = stored[p]
       /\ ret'.op = "add_section" =>
              \A p \in DOMAIN _scenes :
                  /\ SubSeq(stored'[p], 1, Len(stored[p])) = stored[p]
                  /\ Len(stored'[p]) \in {Len(stored[p]), Len(stored[p]) + 1}
                  /\ Len(stored'[p]) = Len(stored[p]) + 1 =>
                         \E s \in BuildSections :
                             stored'[p][Len(stored'[p])]
                                 = Formatted(s, _characters \cup _locations)]_vars

\* scene 1 holds the stage direction 'bob.' stored before Bob joined the
\* roster, followed by 'BOB.' just inserted from the same text
C8_Witness ==
    /\ ret.op = "add_section"
    /\ ret.status = "ok"
    /\ Bob \in _characters
    /\ Len(_scenes) >= 1
    /\ stored[1] = <<StageDirection(<<98, 111, 98, 46>>), StageDirection(<<66, 79, 66, 46>>)>>

-----------------------------------------------------------------------------
\* parts[1], ..., parts[k] with sep between neighbours
RECURSIVE joined(_, _, _)
joined(parts, sep, k) ==
    IF k = 0 THEN <<>>
    ELSE IF k = 1 THEN parts[1]
    ELSE joined(parts, sep, k - 1) \o sep \o parts[k]

\* '\n\n<br/>\n\n'
SectionSeparator == <<10, 10, 60, 98, 114, 47, 62, 10, 10>>

\* '\n\n<br/>\n\n<br/>\n\n'
SceneSeparator == <<10, 10, 60, 98, 114, 47, 62, 10, 10, 60, 98, 114, 47, 62, 10, 10>>

\* '## Scene {number}\n', then the renders of the sections of the scene at
\* position p in stored order, SectionSeparator between them (scene numbers
\* of the model have one digit)
SceneRender(p) ==
    <<35, 35, 32, 83, 99, 101, 110, 101, 32, 48 + scene_nums[p], 10>>
    \o joined([k \in DOMAIN stored[p] |->
                  Section_export_to_markdown(heap, heap[_scenes[p]]._sections[k])],
              SectionSeparator, Len(stored[p]))

\* the document export() is to return when the title is set
Document ==
    <<35, 32>> \o title
    \o (IF subtitle # None THEN <<10, 10>> \o subtitle ELSE <<>>)
    \o SceneSeparator
    \o joined([p \in DOMAIN _scenes |-> SceneRender(p)], SceneSeparator, Len(_scenes))

\* C6: export() fails with ValueError (the MissingField condition) exactly
\* when the title is unset; otherwise it returns '# {title}', a blank line and
\* the subtitle only if there is one, the scene separator, and the scenes'
\* renders in scene-number order with the scene separator between them; in
\* both cases it leaves the Script as it was.
C6_Export ==
    /\ [](ret.op = "export_to_markdown" =>
             IF title = None THEN ret.status = "ValueError"
             ELSE ret.status = "ok" /\ ret.text = Document)
    /\ [][ret'.op = "export_to_markdown" =>
             /\ script' = script
             /\ stored' = stored
             /\ scene_nums' = scene_nums]_vars

\* a Script with a title, no subtitle, and two scenes, the first of two
\* sections, has just been exported
C6_Witness ==
    /\ ret.op = "export_to_markdown"
    /\ ret.status = "ok"
    /\ subtitle = None
    /\ Len(_scenes) = 2
    /\ Len(stored[1]) = 2

-----------------------------------------------------------------------------
\* the character name upper-cased
UpperCased(name) == [k \in 1..Len(name) |-> IF name[k] \in 97..122 THEN name[k] - 32 ELSE name[k]]

\* '**NAME**:', then before \o direction \o ')*' iff there is a stage direction,
\* then two newlines and the line
LineRender(obj, before) ==
    <<42, 42>> \o UpperCased(obj.character) \o <<42, 42, 58>>
    \o (IF obj.stage_drctn # None THEN before \o obj.stage_drctn \o <<41, 42>> ELSE <<>>)
    \o <<10, 10>> \o obj.line

\* C7 as stated: the parenthetical '*(direction)*' follows '**NAME**:' with no
\* space between them.
C7_NoSpaceBeforeDirection ==
    (ret.op = "Section.export_to_markdown" /\ heap[arg].cls = "CharacterLine") =>
        ret.text = LineRender(heap[arg], <<42, 40>>)

\* C7, amended: CharacterLine renders as '**NAME**:' with NAME the character
\* name upper-cased, followed by one space and '*(direction)*' iff a stage
\* direction is present, then two newlines, then the line text verbatim.
C7_SpaceBeforeDirection ==
    (ret.op = "Section.export_to_markdown" /\ heap[arg].cls = "CharacterLine") =>
        ret.text = LineRender(heap[arg], <<32, 42, 40>>)

\* CharacterLine('bob', 'hello.', 'smiling') rendered as
\* '**BOB**: *(smiling)*\n\nhello.'
C7_Witness ==
    /\ ret.op = "Section.export_to_markdown"
    /\ heap[arg] = CharacterLine(bob, hello_dot, smiling)
    /\ ret.text = <<42, 42, 66, 79, 66, 42, 42, 58, 32, 42, 40, 115, 109, 105, 108, 105,
                    110, 103, 41, 42, 10, 10, 104, 101, 108, 108, 111, 46>>

-----------------------------------------------------------------------------
\* the two forms of the punctuation rule that append '.'
AppendOps == {"_modify_stage_drctn(punct=True)", "_modify_line"}

\* the form of the punctuation rule used on a CharacterLine's stage direction
StripOp == "_modify_stage_drctn(punct=False)"

\* C11 as stated: for a non-empty text, the second application of the
\* punctuation rule to the output of the first succeeds and returns that
\* output unchanged, for the append-'.' forms and for the form used on a
\* CharacterLine's stage direction.
C11_PunctuationIdempotent ==
    [][(ret.status = "ok" /\ ret'.op \in AppendOps \cup {StripOp} /\ ret'.op = ret.op) =>
          /\ ret'.status = "ok"
          /\ ret'.text = ret.text]_vars

\* the text ends in a punctuation character
EndsInPunctuation(t) == Len(t) > 0 /\ t[Len(t)] \in string_punctuation

\* the text with its letters in lower case
Lowered(t) == [k \in 1..Len(t) |-> IF t[k] \in 65..90 THEN t[k] + 32 ELSE t[k]]

\* C11, amended: the append-'.' form (StageDirection text and dialogue lines)
\* is idempotent for every non-empty text.  The form used on a
\* CharacterLine's stage direction strips one trailing punctuation character
\* at each application: applied to the output of its first application it
\* fails if that output is empty, strips a further character if the output
\* still ends in punctuation, and otherwise returns the characters of the
\* output, changed at most by the upper-casing of roster names.
C11_PunctuationTwice ==
    [][/\ (ret.status = "ok" /\ ret'.op \in AppendOps /\ ret'.op = ret.op) =>
              /\ ret'.status = "ok"
              /\ ret'.text = ret.text
       /\ (ret.status = "ok" /\ ret'.op = StripOp /\ ret'.op = ret.op) =>
              IF ret.text = <<>> THEN ret'.status = "IndexError"
              ELSE /\ ret'.status = "ok"
                   /\ Lowered(ret'.text)
                          = Lowered(IF EndsInPunctuation(ret.text)
                                    THEN SubSeq(ret.text, 1, Len(ret.text) - 1)
                                    ELSE ret.text)]_vars

\* under the roster {'b'}, a text went through the stage-direction form with
\* punct=True twice in a row and is 'B.' after the second application
C11_Witness ==
    /\ ret.op = "_modify_stage_drctn(punct=True)"
    /\ ret.num = 2
    /\ ret.status = "ok"
    /\ ret.text = <<66, 46>>
    /\ _characters = {b_name}

-----------------------------------------------------------------------------
\* C12: add_section resolves the scene number before it runs the Formatter:
\* when the scene number does not resolve (0, or above the scene count) the
\* call fails, no scene of the Script changes, and the section the caller
\* passed, which the caller still holds, has the text fields it was passed
\* with.
C12_ResolveBeforeFormat ==
    [][\A n \in 0..(MaxScenes + 1), s \in BuildSections :
          (/\ add_section(n, s)
           /\ ret'.op = "add_section"
           /\ ret'.scene_num = n
           /\ (n = 0 \/ n > Len(_scenes)))
          => /\ ret'.status # "ok"
             /\ stored' = stored
             /\ heap'[arg'] = s]_vars

-----------------------------------------------------------------------------
\* the dict of the file and the stored section agree in variant and text
RecordMirrors(rec, section) ==
    CASE section.cls = "CharacterLine" ->
             /\ rec.type = "line"
             /\ rec.line = section.line
             /\ rec.drctn = section.stage_drctn
      [] section.cls = "StageDirection" ->
             /\ rec.type = "drctn"
             /\ rec.drctn = section.direction
      [] section.cls = "RawSection" ->
             /\ rec.type = "rawmd"
             /\ rec.rawmd = section.markdown

====
